---- MODULE Spec2Model ----
(***************************************************************************)
(* Model of igir's DATStatus (src/types/datStatus.ts) and FixdatCreator    *)
(* (modules/fixdatCreator.ts): the classification of the games of a DAT    *)
(* into found / incomplete partitions, the CSV and console reports, and    *)
(* the derivation and writing of a fixdat.                                 *)
(***************************************************************************)
EXTENDS Integers, Sequences, FiniteSets, TLC

\* Bounds of the explored inputs.
MaxGames == 2
MaxCandidates == 2

(***************************************************************************)
(* ROMType and GameStatus                                                  *)
(***************************************************************************)
GAME == "games"
BIOS == "BIOSes"
DEVICE == "devices"
RETAIL == "retail releases"
PATCHED == "patched games"
ROMType == {GAME, BIOS, DEVICE, RETAIL, PATCHED}

FOUND == 1
INCOMPLETE == 2
MISSING == 3

GameStatusInverted(status) ==
  CASE status = FOUND -> "FOUND"
    [] status = INCOMPLETE -> "INCOMPLETE"
    [] status = MISSING -> "MISSING"

(***************************************************************************)
(* The objects handed to the two classes.  A File has a path and, inside   *)
(* an archive, an entry; a RomWithFiles pairs a ROM (named by its hash     *)
(* code) with its input and output File; a Game has a name (a number,      *)
(* ordered as localeCompare orders names), ROMs and flags.                 *)
(***************************************************************************)
RomWithFiles1 ==
  [rom |-> "r1",
   inputFile |-> [filePath |-> "in.zip", entryPath |-> "a"],
   outputFile |-> [filePath |-> "out/a.rom", entryPath |-> ""]]
RomWithFiles2 ==
  [rom |-> "r2",
   inputFile |-> [filePath |-> "in.zip", entryPath |-> "b"],
   outputFile |-> [filePath |-> "out/b.rom", entryPath |-> ""]]

RomWithFiles3 ==
  [rom |-> "r3",
   inputFile |-> [filePath |-> "loose.rom", entryPath |-> ""],
   outputFile |-> [filePath |-> "out/c.rom", entryPath |-> ""]]

\* The resolved lists a candidate may carry.
RomsWithFilesLists ==
  {<<>>, <<RomWithFiles1>>, <<RomWithFiles2>>, <<RomWithFiles1, RomWithFiles2>>,
   <<RomWithFiles1, RomWithFiles2, RomWithFiles3>>}

GameA ==
  [name |-> 1, roms |-> <<"r1", "r2", "r3">>,
   isBios |-> FALSE, isDevice |-> FALSE, isRetail |-> TRUE]
GameB ==
  [name |-> 2, roms |-> <<"r1">>,
   isBios |-> TRUE, isDevice |-> FALSE, isRetail |-> FALSE]
GameC ==
  [name |-> 3, roms |-> <<>>,
   isBios |-> FALSE, isDevice |-> TRUE, isRetail |-> TRUE]
Games == {GameA, GameB, GameC}

WriteCandidates == [game : Games, patched : BOOLEAN, romsWithFiles : RomsWithFilesLists]

\* A DAT lists each of its games once.
DATs ==
  {d \in UNION {[1..n -> Games] : n \in 0..MaxGames} :
     \A i, j \in 1..Len(d) : d[i] = d[j] => i = j}

CandidateLists == UNION {[1..n -> WriteCandidates] : n \in 0..MaxCandidates}

\* Options: the filters read by getAllowedTypes and the two mode switches.
Options ==
  [onlyBios : BOOLEAN, onlyDevice : BOOLEAN, onlyRetail : BOOLEAN,
   noBios : BOOLEAN, noDevice : BOOLEAN]

\* Game.hashCode(): the content identity of a game, from its name and ROMs.
GameHashCode(game) == <<game.name, game.roms>>

\* Game.equals(): equality by hash code.
GameEquals(a, b) == GameHashCode(a) = GameHashCode(b)

\* A reference to the i-th WriteCandidate object of the list, and `undefined`.
CandidateRef(i) == [idx |-> i]
Undefined == [undefined |-> TRUE]

VARIABLES
  dat,                            \* the games of the DAT, in order
  candidates,                     \* the WriteCandidates, in order
  spc,                            \* DATStatus: "new", "built", "reported"
  allRomTypesToGames,
  foundRomTypesToCandidates,
  incompleteRomTypesToCandidates,
  ret,                            \* what the last DATStatus query returned
  fpc,                            \* FixdatCreator.create: position
  shouldFixdat,                   \* options.shouldFixdat() as read by create
  gamesWithMissingRoms,
  fixdat,                         \* the LogiqxDAT built by create
  ioLog,                          \* the completed FsPoly calls, in order
  result                          \* what create returned or threw

vars ==
  <<dat, candidates, spc, allRomTypesToGames, foundRomTypesToCandidates,
    incompleteRomTypesToCandidates, ret, fpc, shouldFixdat,
    gamesWithMissingRoms, fixdat, ioLog, result>>

statusVars ==
  <<spc, allRomTypesToGames, foundRomTypesToCandidates,
    incompleteRomTypesToCandidates, ret>>

fixdatVars == <<fpc, shouldFixdat, gamesWithMissingRoms, fixdat, ioLog, result>>

(***************************************************************************)
(* Helpers on sequences                                                    *)
(***************************************************************************)
\* ArrayPoly.reduceUnique(): the first occurrence of every element, in order.
RECURSIVE ReduceUnique(_)
ReduceUnique(s) ==
  IF s = <<>> THEN <<>>
  ELSE LET front == ReduceUnique(SubSeq(s, 1, Len(s) - 1))
           last == s[Len(s)]
       IN IF \E i \in 1..Len(front) : front[i] = last THEN front
          ELSE Append(front, last)

\* find((candidate) => candidate.getGame().equals(game)): the first candidate
\* of the list cs whose game equals the game, or undefined.
FindCandidateOf(cs, cands, game) ==
  LET matches == {i \in 1..Len(cs) : GameEquals(cands[cs[i].idx].game, game)}
  IN IF matches = {} THEN Undefined
     ELSE cs[CHOOSE i \in matches : \A j \in matches : i <= j]

\* Array.prototype.sort by game name: a stable insertion sort.
RECURSIVE SortByName(_)
SortByName(s) ==
  IF s = <<>> THEN <<>>
  ELSE LET front == SortByName(SubSeq(s, 1, Len(s) - 1))
           last == s[Len(s)]
           keep == SelectSeq(front, LAMBDA g : g.name <= last.name)
           after == SelectSeq(front, LAMBDA g : g.name > last.name)
       IN keep \o <<last>> \o after

(***************************************************************************)
(* DATStatus: construction                                                 *)
(***************************************************************************)
EmptyMap == [romType \in ROMType |-> <<>>]

EmptyStatus == [all |-> EmptyMap, found |-> EmptyMap, incomplete |-> EmptyMap]

\* DATStatus.append
AppendToMap(map, romType, value) == [map EXCEPT ![romType] = Append(@, value)]

\* DATStatus.pushValueIntoMap
PushValueIntoMap(map, game, value) ==
  LET m1 == AppendToMap(map, GAME, value)
      m2 == IF game.isBios THEN AppendToMap(m1, BIOS, value) ELSE m1
      m3 == IF game.isDevice THEN AppendToMap(m2, DEVICE, value) ELSE m2
  IN IF game.isRetail THEN AppendToMap(m3, RETAIL, value) ELSE m3

\* indexedCandidates.get(key): the candidates of the game with that hash
\* code, in list order; <<>> stands for an absent key.
IndexedCandidates(cands, key) ==
  SelectSeq([i \in 1..Len(cands) |-> CandidateRef(i)],
            LAMBDA c : GameHashCode(cands[c.idx].game) = key)

\* Mutant: the last candidate of the game instead of the first.
GameCandidateAtLast(gameCandidates) ==
  IF gameCandidates = <<>> THEN Undefined ELSE gameCandidates[Len(gameCandidates)]

\* gameCandidates?.at(0)
GameCandidateAt0(gameCandidates) ==
  IF gameCandidates = <<>> THEN Undefined ELSE gameCandidates[1]

\* The test of "the found ReleaseCandidate is incomplete".
IsIncompleteCandidate(cands, gameCandidate, game) ==
  /\ gameCandidate # Undefined
  /\ Len(cands[gameCandidate.idx].romsWithFiles) # Len(game.roms)

\* Mutant: the `return` after recording an incomplete candidate is missing.
ClassifyGameFallThrough(st, cands, game) ==
  LET withAll == [st EXCEPT !.all = PushValueIntoMap(@, game, game)]
      gameCandidates == IndexedCandidates(cands, GameHashCode(game))
      gameCandidate == GameCandidateAt0(gameCandidates)
  IN IF gameCandidates # <<>> \/ Len(game.roms) = 0
     THEN IF IsIncompleteCandidate(cands, gameCandidate, game)
          THEN [withAll EXCEPT !.incomplete = PushValueIntoMap(@, game, gameCandidate),
                               !.found = PushValueIntoMap(@, game, gameCandidate)]
          ELSE [withAll EXCEPT !.found = PushValueIntoMap(@, game, gameCandidate)]
     ELSE withAll

\* The body of dat.getGames().forEach
ClassifyGame(st, cands, game) ==
  LET withAll == [st EXCEPT !.all = PushValueIntoMap(@, game, game)]
      gameCandidates == IndexedCandidates(cands, GameHashCode(game))
      gameCandidate == GameCandidateAt0(gameCandidates)
  IN IF gameCandidates # <<>> \/ Len(game.roms) = 0
     THEN IF IsIncompleteCandidate(cands, gameCandidate, game)
          THEN [withAll EXCEPT !.incomplete = PushValueIntoMap(@, game, gameCandidate)]
          ELSE [withAll EXCEPT !.found = PushValueIntoMap(@, game, gameCandidate)]
     ELSE withAll

RECURSIVE ForEachGame(_, _, _, _)
ForEachGame(st, games, cands, i) ==
  IF i > Len(games) THEN st
  ELSE ForEachGame(ClassifyGame(st, cands, games[i]), games, cands, i + 1)

\* Mutant: a patched candidate is recorded as found, its game not under all.
RECURSIVE ForEachPatchedFoundOnly(_, _, _)
ForEachPatchedFoundOnly(st, cands, j) ==
  IF j > Len(cands) THEN st
  ELSE IF cands[j].patched
       THEN ForEachPatchedFoundOnly(
              [st EXCEPT !.found = AppendToMap(@, PATCHED, CandidateRef(j))],
              cands, j + 1)
       ELSE ForEachPatchedFoundOnly(st, cands, j + 1)

\* The loop over the patched candidates.
RECURSIVE ForEachPatched(_, _, _)
ForEachPatched(st, cands, j) ==
  IF j > Len(cands) THEN st
  ELSE IF cands[j].patched
       THEN ForEachPatched(
              [st EXCEPT !.all = AppendToMap(@, PATCHED, cands[j].game),
                         !.found = AppendToMap(@, PATCHED, CandidateRef(j))],
              cands, j + 1)
       ELSE ForEachPatched(st, cands, j + 1)

Constructor(games, cands) ==
  ForEachPatched(ForEachGame(EmptyStatus, games, cands, 1), cands, 1)

(***************************************************************************)
(* DATStatus: queries                                                      *)
(***************************************************************************)
RECURSIVE Flat(_)
Flat(ss) == IF ss = <<>> THEN <<>> ELSE Head(ss) \o Flat(Tail(ss))

\* DATStatus.getAllowedTypes
GetAllowedTypes(options) ==
  SelectSeq(<<GAME, BIOS, DEVICE, RETAIL, PATCHED>>,
    LAMBDA romType :
      CASE romType = GAME ->
             ~options.onlyBios /\ ~options.onlyDevice /\ ~options.onlyRetail
        [] romType = BIOS ->
             options.onlyBios \/ (~options.noBios /\ ~options.onlyDevice)
        [] romType = DEVICE ->
             options.onlyDevice \/ (~options.onlyBios /\ ~options.noDevice)
        [] romType = RETAIL ->
             options.onlyRetail \/ (~options.onlyBios /\ ~options.onlyDevice)
        [] romType = PATCHED -> TRUE)

\* Array.prototype.sort() without a comparator orders by String(value); Game
\* and WriteCandidate objects all convert to the same string, and the sort
\* is stable, so the order is kept.
DefaultSort(s) == s

\* DATStatus.getValuesForAllowedTypes
GetValuesForAllowedTypes(options, romTypesToValues) ==
  LET types == GetAllowedTypes(options)
      values == Flat([i \in 1..Len(types) |-> romTypesToValues[types[i]]])
  IN DefaultSort(ReduceUnique(SelectSeq(values, LAMBDA value : value # Undefined)))

\* Mutant: the incomplete partition is left out.
GetInputFilesOfFound(st, cands) ==
  LET order == <<GAME, BIOS, DEVICE, RETAIL, PATCHED>>
      values == Flat([i \in 1..Len(order) |-> st.found[order[i]]])
      defined == SelectSeq(values, LAMBDA candidate : candidate # Undefined)
      romsWithFiles == Flat([i \in 1..Len(defined) |-> cands[defined[i].idx].romsWithFiles])
  IN [i \in 1..Len(romsWithFiles) |-> romsWithFiles[i].inputFile]

\* DATStatus.getInputFiles
GetInputFiles(st, cands) ==
  LET order == <<GAME, BIOS, DEVICE, RETAIL, PATCHED>>
      values == Flat([i \in 1..Len(order) |-> st.found[order[i]]])
                  \o Flat([i \in 1..Len(order) |-> st.incomplete[order[i]]])
      defined == SelectSeq(values, LAMBDA candidate : candidate # Undefined)
      romsWithFiles == Flat([i \in 1..Len(defined) |-> cands[defined[i].idx].romsWithFiles])
  IN [i \in 1..Len(romsWithFiles) |-> romsWithFiles[i].inputFile]

\* DATStatus.anyGamesFound
AnyGamesFound(st, options) ==
  LET types == GetAllowedTypes(options)
  IN \E i \in 1..Len(types) : Len(st.found[types[i]]) > 0

\* The colour band of toConsole for percentage = found / all * 100.
ColorBand(found, all) ==
  CASE found * 100 >= 100 * all -> "green"
    [] found * 100 < 100 * all /\ found * 100 >= 75 * all -> "yellow"
    [] found * 100 < 75 * all /\ found * 100 >= 50 * all -> "olive"
    [] found * 100 < 50 * all /\ found * 100 >= 25 * all -> "orange"
    [] found * 100 < 25 * all /\ found * 100 > 0 -> "red-orange"
    [] OTHER -> "red"

\* One segment of toConsole: the type, the printed counts, and the operands
\* of the percentage when it is computed.
ConsoleSegment(st, type, usingDats) ==
  LET found == Len(st.found[type])
      all == Len(st.all[type])
  IN IF ~usingDats
     THEN [type |-> type, text |-> <<found>>, percentage |-> <<>>, color |-> "none"]
     ELSE [type |-> type,
           text |-> IF type = PATCHED THEN <<all>> ELSE <<found, all>>,
           percentage |-> <<found, all>>,
           color |-> ColorBand(found, all)]

\* DATStatus.toConsole
ToConsole(st, options, usingDats, shouldWrite) ==
  LET types == SelectSeq(GetAllowedTypes(options), LAMBDA type : Len(st.all[type]) > 0)
  IN [segments |-> [i \in 1..Len(types) |-> ConsoleSegment(st, types[i], usingDats)],
      suffix |-> IF shouldWrite THEN "written" ELSE "found"]

\* Mutant: the default status and the incomplete status exchanged.
ResolveStatusSwapped(incompleteCandidate, foundCandidate, game) ==
  LET status == IF incompleteCandidate # Undefined THEN MISSING ELSE INCOMPLETE
  IN IF foundCandidate # Undefined \/ Len(game.roms) = 0 THEN FOUND ELSE status

\* The status precedence of toCsv: MISSING, then INCOMPLETE, then FOUND.
ResolveStatus(incompleteCandidate, foundCandidate, game) ==
  LET status == IF incompleteCandidate # Undefined THEN INCOMPLETE ELSE MISSING
  IN IF foundCandidate # Undefined \/ Len(game.roms) = 0 THEN FOUND ELSE status

\* Mutant: the file paths without the final reduceUnique.
FilePathsRepeated(cands, incompleteCandidate, foundCandidate, shouldWrite) ==
  LET romsWithFiles ==
        (IF incompleteCandidate # Undefined
         THEN cands[incompleteCandidate.idx].romsWithFiles ELSE <<>>)
        \o (IF foundCandidate # Undefined
            THEN cands[foundCandidate.idx].romsWithFiles ELSE <<>>)
      files == [i \in 1..Len(romsWithFiles) |->
                  IF shouldWrite THEN romsWithFiles[i].outputFile
                  ELSE romsWithFiles[i].inputFile]
  IN [i \in 1..Len(files) |-> files[i].filePath]

\* The file paths of a row of toCsv.
FilePaths(cands, incompleteCandidate, foundCandidate, shouldWrite) ==
  LET romsWithFiles ==
        (IF incompleteCandidate # Undefined
         THEN cands[incompleteCandidate.idx].romsWithFiles ELSE <<>>)
        \o (IF foundCandidate # Undefined
            THEN cands[foundCandidate.idx].romsWithFiles ELSE <<>>)
      files == [i \in 1..Len(romsWithFiles) |->
                  IF shouldWrite THEN romsWithFiles[i].outputFile
                  ELSE romsWithFiles[i].inputFile]
  IN ReduceUnique([i \in 1..Len(files) |-> files[i].filePath])

\* One row of toCsv (buildCsvRow), without the name-derived flag columns.
CsvRow(st, cands, options, shouldWrite, game) ==
  LET foundCandidates == GetValuesForAllowedTypes(options, st.found)
      incompleteCandidates == GetValuesForAllowedTypes(options, st.incomplete)
      incompleteCandidate ==
        FindCandidateOf(incompleteCandidates, cands, game)
      foundCandidate ==
        FindCandidateOf(foundCandidates, cands, game)
  IN [gameName |-> game.name,
      status |-> GameStatusInverted(
                   ResolveStatus(incompleteCandidate, foundCandidate, game)),
      filePaths |-> FilePaths(cands, incompleteCandidate, foundCandidate, shouldWrite),
      patched |-> IF foundCandidate # Undefined
                  THEN cands[foundCandidate.idx].patched ELSE FALSE,
      bios |-> game.isBios,
      retail |-> game.isRetail]

\* DATStatus.toCsv: the rows, in order.
ToCsv(st, cands, options, shouldWrite) ==
  LET games == SortByName(ReduceUnique(GetValuesForAllowedTypes(options, st.all)))
  IN [i \in 1..Len(games) |-> CsvRow(st, cands, options, shouldWrite, games[i])]

\* The three partition maps of the constructed instance.
Status ==
  [all |-> allRomTypesToGames,
   found |-> foundRomTypesToCandidates,
   incomplete |-> incompleteRomTypesToCandidates]

(***************************************************************************)
(* FixdatCreator.create                                                    *)
(***************************************************************************)
\* Mutant: only the first candidate of the list is indexed.
WrittenRomHashCodesOfFirst(cands) ==
  IF cands = <<>> THEN {}
  ELSE {cands[1].romsWithFiles[k].rom : k \in 1..Len(cands[1].romsWithFiles)}

\* The hash codes of every ROM that has a WriteCandidate.
WrittenRomHashCodes(cands) ==
  UNION {{cands[i].romsWithFiles[k].rom : k \in 1..Len(cands[i].romsWithFiles)} :
           i \in 1..Len(cands)}

\* Mutant: `some` in place of `every`.
HasNoWrittenRom(game, writtenRomHashCodes) ==
  ~(\E k \in 1..Len(game.roms) : game.roms[k] \in writtenRomHashCodes)

\* The test of the filter: not every ROM of the game was written.
HasMissingRom(game, writtenRomHashCodes) ==
  ~(\A k \in 1..Len(game.roms) : game.roms[k] \in writtenRomHashCodes)

\* All the games that have at least one missing ROM, in DAT order.
GamesWithMissingRoms(games, cands) ==
  SelectSeq(games, LAMBDA game : HasMissingRom(game, WrittenRomHashCodes(cands)))

\* new LogiqxDAT({ header: new IgirHeader('fixdat', ...), games })
NewFixdat(games) == [present |-> TRUE, header |-> "fixdat", games |-> games]

\* Mutant: the directory is created whatever the existence check says.
MkdirAlways(exists) == TRUE

\* if (!(await FsPoly.exists(fixdatDir))): the directory is created.
MkdirNeeded(exists) == ~exists

\* Where create continues after mkdir: an error propagates to the caller.
AfterMkdir(ok) == IF ok THEN "write" ELSE "failed"

\* What create yields after writeFile: the path, or the error thrown.
AfterWrite(ok) ==
  IF ok THEN [kind |-> "path"] ELSE [kind |-> "error", from |-> "write"]


Init ==
  /\ dat \in DATs
  /\ candidates \in CandidateLists
  /\ spc = "new"
  /\ allRomTypesToGames = EmptyMap
  /\ foundRomTypesToCandidates = EmptyMap
  /\ incompleteRomTypesToCandidates = EmptyMap
  /\ ret = [op |-> "none"]
  /\ fpc = "idle"
  /\ shouldFixdat = "unread"
  /\ gamesWithMissingRoms = <<>>
  /\ fixdat = [present |-> FALSE]
  /\ ioLog = <<>>
  /\ result = [kind |-> "none"]

Construct ==
  /\ spc = "new"
  /\ LET st == Constructor(dat, candidates)
     IN /\ allRomTypesToGames' = st.all
        /\ foundRomTypesToCandidates' = st.found
        /\ incompleteRomTypesToCandidates' = st.incomplete
  /\ spc' = "built"
  /\ UNCHANGED <<dat, candidates, ret>>
  /\ UNCHANGED fixdatVars

CallToCsv ==
  /\ spc = "built"
  /\ fpc = "idle"
  /\ \E options \in Options, shouldWrite \in BOOLEAN :
       ret' = [op |-> "toCsv",
               allowed |-> GetAllowedTypes(options),
               shouldWrite |-> shouldWrite,
               rows |-> ToCsv(Status, candidates, options, shouldWrite)]
  /\ spc' = "reported"
  /\ UNCHANGED <<dat, candidates, allRomTypesToGames, foundRomTypesToCandidates,
                 incompleteRomTypesToCandidates>>
  /\ UNCHANGED fixdatVars

CallToConsole ==
  /\ spc = "built"
  /\ fpc = "idle"
  /\ \E options \in Options, usingDats \in BOOLEAN, shouldWrite \in BOOLEAN :
       ret' = [op |-> "toConsole",
               console |-> ToConsole(Status, options, usingDats, shouldWrite)]
  /\ spc' = "reported"
  /\ UNCHANGED <<dat, candidates, allRomTypesToGames, foundRomTypesToCandidates,
                 incompleteRomTypesToCandidates>>
  /\ UNCHANGED fixdatVars

CallGetInputFiles ==
  /\ spc = "built"
  /\ fpc = "idle"
  /\ ret' = [op |-> "getInputFiles", files |-> GetInputFiles(Status, candidates)]
  /\ spc' = "reported"
  /\ UNCHANGED <<dat, candidates, allRomTypesToGames, foundRomTypesToCandidates,
                 incompleteRomTypesToCandidates>>
  /\ UNCHANGED fixdatVars

CallAnyGamesFound ==
  /\ spc = "built"
  /\ fpc = "idle"
  /\ \E options \in Options :
       ret' = [op |-> "anyGamesFound",
               allowed |-> GetAllowedTypes(options),
               any |-> AnyGamesFound(Status, options)]
  /\ spc' = "reported"
  /\ UNCHANGED <<dat, candidates, allRomTypesToGames, foundRomTypesToCandidates,
                 incompleteRomTypesToCandidates>>
  /\ UNCHANGED fixdatVars

\* create, up to its first await (or its early return).  The caller runs
\* the report queries and create one after the other on the same snapshot.
Create ==
  /\ fpc = "idle"
  /\ spc # "reported"
  /\ \E enabled \in BOOLEAN :
       IF ~enabled
       THEN /\ shouldFixdat' = "no"
            /\ fpc' = "done"
            /\ result' = [kind |-> "absent"]
            /\ UNCHANGED gamesWithMissingRoms
       ELSE LET missing == GamesWithMissingRoms(dat, candidates)
            IN /\ shouldFixdat' = "yes"
               /\ gamesWithMissingRoms' = missing
               /\ IF Len(missing) = 0
                  THEN /\ fpc' = "done"
                       /\ result' = [kind |-> "absent"]
                  ELSE /\ fpc' = "exists"
                       /\ UNCHANGED result
  /\ UNCHANGED <<fixdat, ioLog>>
  /\ UNCHANGED <<dat, candidates>>
  /\ UNCHANGED statusVars

\* FsPoly.exists(fixdatDir) returns.
ExistsReturns ==
  /\ fpc = "exists"
  /\ \E exists \in BOOLEAN :
       /\ ioLog' = Append(ioLog, [op |-> "exists", outcome |-> IF exists THEN "true" ELSE "false"])
       /\ IF MkdirNeeded(exists)
          THEN /\ fpc' = "mkdir"
               /\ UNCHANGED fixdat
          ELSE /\ fpc' = "write"
               /\ fixdat' = NewFixdat(gamesWithMissingRoms)
  /\ UNCHANGED <<shouldFixdat, gamesWithMissingRoms, result>>
  /\ UNCHANGED <<dat, candidates>>
  /\ UNCHANGED statusVars

\* FsPoly.mkdir(fixdatDir) returns or throws.
MkdirReturns ==
  /\ fpc = "mkdir"
  /\ \E ok \in BOOLEAN :
       /\ ioLog' = Append(ioLog, [op |-> "mkdir", outcome |-> IF ok THEN "ok" ELSE "error"])
       /\ IF ok
          THEN /\ fpc' = AfterMkdir(ok)
               /\ fixdat' = NewFixdat(gamesWithMissingRoms)
               /\ UNCHANGED result
          ELSE /\ fpc' = AfterMkdir(ok)
               /\ result' = [kind |-> "error", from |-> "mkdir"]
               /\ UNCHANGED fixdat
  /\ UNCHANGED <<shouldFixdat, gamesWithMissingRoms>>
  /\ UNCHANGED <<dat, candidates>>
  /\ UNCHANGED statusVars

\* FsPoly.writeFile(fixdatPath, fixdatContents) returns or throws.
WriteFileReturns ==
  /\ fpc = "write"
  /\ \E ok \in BOOLEAN :
       /\ ioLog' = Append(ioLog, [op |-> "write", outcome |-> IF ok THEN "ok" ELSE "error"])
       /\ fpc' = IF ok THEN "done" ELSE "failed"
       /\ result' = AfterWrite(ok)
  /\ UNCHANGED <<shouldFixdat, gamesWithMissingRoms, fixdat>>
  /\ UNCHANGED <<dat, candidates>>
  /\ UNCHANGED statusVars

Next ==
  \/ Construct
  \/ CallToCsv
  \/ CallToConsole
  \/ CallGetInputFiles
  \/ CallAnyGamesFound
  \/ Create
  \/ ExistsReturns
  \/ MkdirReturns
  \/ WriteFileReturns

\* The DATStatus queries and FixdatCreator.create on one snapshot.
Spec == Init /\ [][Next]_vars

\* The construction of a DATStatus and its getInputFiles alone.
NextStatus ==
  \/ Construct
  \/ CallGetInputFiles

SpecStatus == Init /\ [][NextStatus]_vars

\* FixdatCreator.create alone: it reads the DAT and the candidates only.
NextFixdat ==
  \/ Create
  \/ ExistsReturns
  \/ MkdirReturns
  \/ WriteFileReturns

SpecFixdat == Init /\ [][NextFixdat]_vars
(***************************************************************************)
(* Vocabulary of the properties                                            *)
(***************************************************************************)
Range(s) == {s[i] : i \in 1..Len(s)}

NoRepeat(s) == \A i, j \in 1..Len(s) : s[i] = s[j] => i = j

AllTypes == <<GAME, BIOS, DEVICE, RETAIL, PATCHED>>

Constructed == spc \in {"built", "reported"}

CsvReturned == spc = "reported" /\ ret.op = "toCsv"

\* The indices of the candidates that refer to the game, in list order.
CandidatesOf(game) ==
  {i \in 1..Len(candidates) : GameHashCode(candidates[i].game) = GameHashCode(game)}

HasCandidate(game) == CandidatesOf(game) # {}

\* The first candidate of the game in the list.
FirstCandidateOf(game) ==
  CHOOSE i \in CandidatesOf(game) : \A j \in CandidatesOf(game) : i <= j

ResolvedCount(i) == Len(candidates[i].romsWithFiles)

ResolvedRoms(i) == {candidates[i].romsWithFiles[k].rom : k \in 1..ResolvedCount(i)}

DeclaredRoms(game) == Range(game.roms)

\* Every candidate resolves either as many ROMs as its game declares or at
\* least one and fewer: the lists on which the `!==` of the constructor and
\* a `<` agree.
ProperCounts ==
  \A i \in 1..Len(candidates) :
    \/ ResolvedCount(i) = Len(candidates[i].game.roms)
    \/ 1 <= ResolvedCount(i) /\ ResolvedCount(i) < Len(candidates[i].game.roms)

\* The paths the row of candidate i is expected to list.
PathsOf(i, shouldWrite) ==
  {IF shouldWrite THEN candidates[i].romsWithFiles[k].outputFile.filePath
   ELSE candidates[i].romsWithFiles[k].inputFile.filePath : k \in 1..ResolvedCount(i)}

RowsOf(game) == {k \in 1..Len(ret.rows) : ret.rows[k].gameName = game.name}

\* Every row of the game carries the status, and the game has a row
\* whenever the `games` tag is allowed.
Reported(game, status) ==
  /\ \A k \in RowsOf(game) : ret.rows[k].status = status
  /\ GAME \in Range(ret.allowed) => RowsOf(game) # {}

\* C1 as claimed: with all tags allowed, a DAT game that has some candidate
\* resolving every declared ROM is reported FOUND, whichever place that
\* candidate has in the list.  (Stated for the candidate lists with
\* ProperCounts, where it already fails.)
C1_AnyCandidateFound ==
  (CsvReturned /\ ret.allowed = AllTypes /\ ProperCounts) =>
    \A game \in Range(dat) :
      (\E i \in CandidatesOf(game) : DeclaredRoms(game) \subseteq ResolvedRoms(i))
        => Reported(game, "FOUND")

\* C1 amended: with all tags allowed, a DAT game whose FIRST candidate in the
\* list resolves every declared ROM, with exactly as many resolved ROMs as
\* the game declares, is reported FOUND by toCsv.
C1_FirstCandidateFound ==
  (CsvReturned /\ ret.allowed = AllTypes) =>
    \A game \in Range(dat) :
      (/\ HasCandidate(game)
       /\ DeclaredRoms(game) \subseteq ResolvedRoms(FirstCandidateOf(game))
       /\ ResolvedCount(FirstCandidateOf(game)) = Len(game.roms))
        => Reported(game, "FOUND")

C1_Witness ==
  /\ CsvReturned
  /\ ret.allowed = AllTypes
  /\ \E game \in Range(dat) :
       /\ Cardinality(CandidatesOf(game)) = 2
       /\ Len(game.roms) > 0
       /\ DeclaredRoms(game) \subseteq ResolvedRoms(FirstCandidateOf(game))
       /\ ResolvedCount(FirstCandidateOf(game)) = Len(game.roms)
       /\ \E j \in CandidatesOf(game) : ResolvedCount(j) # Len(game.roms)
       /\ \E k \in RowsOf(game) : ret.rows[k].status = "FOUND"

\* The row of an incomplete game: INCOMPLETE, listing exactly the paths of
\* candidate i, none twice.
IncompleteRow(game, i) ==
  /\ Reported(game, "INCOMPLETE")
  /\ \A k \in RowsOf(game) :
       /\ Range(ret.rows[k].filePaths) = PathsOf(i, ret.shouldWrite)
       /\ NoRepeat(ret.rows[k].filePaths)

\* C2 as claimed: a DAT game with a candidate whose resolved count is strictly
\* between 0 and the declared count is reported INCOMPLETE with exactly that
\* candidate's files, for every candidate list.  (Stated for the candidate
\* lists with ProperCounts, where it already fails.)
C2_AnyCandidateIncomplete ==
  (CsvReturned /\ ProperCounts) =>
    \A game \in Range(dat) : \A i \in CandidatesOf(game) :
      (0 < ResolvedCount(i) /\ ResolvedCount(i) < Len(game.roms))
        => IncompleteRow(game, i)

\* C2 amended: a DAT game whose FIRST candidate has a resolved count strictly
\* between 0 and the declared count, and none of whose candidates is patched,
\* is reported INCOMPLETE, and its row lists exactly the paths of that first
\* candidate's files (output paths when writing, input paths otherwise), no
\* path twice.
C2_FirstCandidateIncomplete ==
  CsvReturned =>
    \A game \in Range(dat) :
      (/\ HasCandidate(game)
       /\ 0 < ResolvedCount(FirstCandidateOf(game))
       /\ ResolvedCount(FirstCandidateOf(game)) < Len(game.roms)
       /\ \A j \in CandidatesOf(game) : ~candidates[j].patched)
        => IncompleteRow(game, FirstCandidateOf(game))

\* Two resolved ROMs from one archive: the path is listed once.
C2_Witness ==
  /\ CsvReturned
  /\ ~ret.shouldWrite
  /\ \E game \in Range(dat) :
       /\ Cardinality(CandidatesOf(game)) = 2
       /\ \A j \in CandidatesOf(game) : ~candidates[j].patched
       /\ ResolvedCount(FirstCandidateOf(game)) = 2
       /\ Len(game.roms) = 3
       /\ \E k \in RowsOf(game) :
            /\ ret.rows[k].status = "INCOMPLETE"
            /\ ret.rows[k].filePaths = <<"in.zip">>

\* C3: a DAT game that declares at least one ROM and to which no candidate
\* refers is reported MISSING by toCsv, whatever candidates other games have.
C3_NoCandidateMissing ==
  CsvReturned =>
    \A game \in Range(dat) :
      (Len(game.roms) >= 1 /\ ~HasCandidate(game)) => Reported(game, "MISSING")

\* A game without candidate whose only ROM another game's candidate resolved.
C3_Witness ==
  /\ CsvReturned
  /\ \E game \in Range(dat) :
       /\ Len(game.roms) >= 1
       /\ ~HasCandidate(game)
       /\ \E i \in 1..Len(candidates) : DeclaredRoms(game) \subseteq ResolvedRoms(i)
       /\ \E k \in RowsOf(game) : ret.rows[k].status = "MISSING"
(***************************************************************************)
(* Properties of FixdatCreator.create                                      *)
(***************************************************************************)
\* The ROMs resolved by any candidate of the list.
AllResolvedRoms == UNION {ResolvedRoms(i) : i \in 1..Len(candidates)}

FullyResolved(game) == DeclaredRoms(game) \subseteq AllResolvedRoms

\* s lists exactly the games of the DAT that are not fully resolved, in DAT
\* order.
IsUnresolvedOfDat(s) ==
  /\ Range(s) = {game \in Range(dat) : ~FullyResolved(game)}
  /\ NoRepeat(s)
  /\ \A a, b \in 1..Len(s) :
       a < b => \E i, j \in 1..Len(dat) : i < j /\ dat[i] = s[a] /\ dat[j] = s[b]

\* create ran with fixdat generation enabled, past the search for games.
FixdatEnabledRun == shouldFixdat = "yes"

NothingProduced ==
  /\ fpc = "done"
  /\ result.kind = "absent"
  /\ ~fixdat.present
  /\ ioLog = <<>>

\* C4: with fixdat generation enabled, create returns absent and produces
\* nothing when every DAT game has all its declared ROMs among the ROMs
\* resolved by any candidate; otherwise the games of the LogiqxDAT it builds
\* are exactly the DAT games with a declared ROM no candidate resolved, in
\* DAT order, so no fully resolved game is among them.
C4_FixdatGames ==
  FixdatEnabledRun =>
    /\ (\A game \in Range(dat) : FullyResolved(game)) => NothingProduced
    /\ (\E game \in Range(dat) : ~FullyResolved(game)) =>
         /\ result.kind # "absent"
         /\ IsUnresolvedOfDat(gamesWithMissingRoms)
         /\ fixdat.present =>
              /\ fixdat.games = gamesWithMissingRoms
              /\ \A k \in 1..Len(fixdat.games) : ~FullyResolved(fixdat.games[k])

\* A fixdat was written that keeps one of two games, the other being fully
\* resolved by candidates of which none is its first.
C4_Witness ==
  /\ fpc = "done"
  /\ result.kind = "path"
  /\ Len(dat) = 2
  /\ Len(fixdat.games) = 1
  /\ \E game \in Range(dat) : Len(game.roms) > 0 /\ FullyResolved(game)

C4_WitnessAbsent ==
  /\ Len(dat) = 2
  /\ \A game \in Range(dat) : Len(game.roms) > 0
  /\ FixdatEnabledRun
  /\ NothingProduced

\* The ioLog of a run that went as far as it can go.
CompleteLogs ==
  {<<[op |-> "exists", outcome |-> "true"], [op |-> "write", outcome |-> w]>> :
     w \in {"ok", "error"}}
  \cup
  {<<[op |-> "exists", outcome |-> "false"], [op |-> "mkdir", outcome |-> "ok"],
     [op |-> "write", outcome |-> w]>> : w \in {"ok", "error"}}
  \cup
  {<<[op |-> "exists", outcome |-> "false"], [op |-> "mkdir", outcome |-> "error"]>>}

IsPrefixOf(s, t) == Len(s) <= Len(t) /\ s = SubSeq(t, 1, Len(s))

LastOf(s) == s[Len(s)]

\* C9: a run of create that is disabled, or finds no game with an unresolved
\* ROM, does no existence check, mkdir or write and returns absent; otherwise
\* mkdir is called only after the existence check reported the directory
\* missing, the write is attempted at most once and only after the directory
\* step succeeded, a path is returned only after a successful write, and a
\* failed mkdir or write ends the run with that error: nothing is retried,
\* no I/O step follows and no path is returned.
C9_IoProtocol ==
  /\ \E full \in CompleteLogs : IsPrefixOf(ioLog, full)
  /\ result.kind = "absent" => fpc = "done" /\ ioLog = <<>>
  /\ (shouldFixdat = "no"
        \/ (shouldFixdat = "yes" /\ \A game \in Range(dat) : FullyResolved(game))) =>
       fpc = "done" /\ result.kind = "absent" /\ ioLog = <<>>
  /\ (shouldFixdat = "yes" /\ \E game \in Range(dat) : ~FullyResolved(game)) =>
       fpc # "idle" /\ result.kind # "absent"
  /\ shouldFixdat = "unread" <=> fpc = "idle"
  /\ result.kind = "path" =>
       /\ fpc = "done"
       /\ LastOf(ioLog) = [op |-> "write", outcome |-> "ok"]
  /\ (ioLog # <<>> /\ LastOf(ioLog).outcome = "error") =>
       /\ fpc = "failed"
       /\ result = [kind |-> "error", from |-> LastOf(ioLog).op]
  /\ fpc = "failed" => ioLog # <<>> /\ LastOf(ioLog).outcome = "error"
  /\ fpc = "mkdir" => LastOf(ioLog) = [op |-> "exists", outcome |-> "false"]
  /\ fpc = "write" =>
       LastOf(ioLog) \in {[op |-> "exists", outcome |-> "true"],
                          [op |-> "mkdir", outcome |-> "ok"]}

\* The directory was missing, was created, and the write then failed.
C9_Witness ==
  /\ fpc = "failed"
  /\ Len(ioLog) = 3
  /\ result = [kind |-> "error", from |-> "write"]
(***************************************************************************)
(* Properties of the partitions                                            *)
(***************************************************************************)
\* The games (by hash code) of the candidates recorded under a tag.
GamesRecorded(romTypesToCandidates, romType) ==
  {GameHashCode(candidates[c.idx].game) :
     c \in {v \in Range(romTypesToCandidates[romType]) : v # Undefined}}

\* C5 as claimed: no game is in the found partition and in the incomplete
\* partition, under the same tag or under different tags.  (Stated for the
\* candidate lists with ProperCounts, where it already fails.)
C5_NeverInBoth ==
  (Constructed /\ ProperCounts) =>
    \A t1, t2 \in ROMType :
      GamesRecorded(foundRomTypesToCandidates, t1)
        \cap GamesRecorded(incompleteRomTypesToCandidates, t2) = {}

\* C5 amended: no game is in the found partition under one of the tags games,
\* BIOSes, devices, retail releases and in the incomplete partition (under
\* any tag); a game recorded incomplete is in the found partition only
\* under `patched games`, where nothing is ever recorded incomplete.
C5_NeverInBothUnpatched ==
  Constructed =>
    /\ \A t1 \in ROMType \ {PATCHED}, t2 \in ROMType :
         GamesRecorded(foundRomTypesToCandidates, t1)
           \cap GamesRecorded(incompleteRomTypesToCandidates, t2) = {}
    /\ incompleteRomTypesToCandidates[PATCHED] = <<>>

\* Two games of the DAT, one found and one incomplete, the incomplete one
\* under two tags and found as a patched game.
C5_Witness ==
  /\ Constructed
  /\ GamesRecorded(foundRomTypesToCandidates, GAME) # {}
  /\ GamesRecorded(incompleteRomTypesToCandidates, RETAIL) # {}
  /\ GamesRecorded(foundRomTypesToCandidates, PATCHED)
       \cap GamesRecorded(incompleteRomTypesToCandidates, GAME) # {}

\* C6: every candidate recorded incomplete has at least one resolved ROM and
\* fewer resolved ROMs than its game declares.
C6_IncompleteIsProperSubset ==
  Constructed =>
    \A t \in ROMType : \A c \in Range(incompleteRomTypesToCandidates[t]) :
      /\ 1 <= ResolvedCount(c.idx)
      /\ ResolvedCount(c.idx) < Len(candidates[c.idx].game.roms)

\* C10: under every tag, found and incomplete together hold at most as many
\* entries as all; under `patched games` found holds as many as all; and
\* every percentage toConsole computes has all > 0 and 0 <= found <= all.
C10_CountsWithinAll ==
  Constructed =>
    /\ \A t \in ROMType :
         Len(foundRomTypesToCandidates[t]) + Len(incompleteRomTypesToCandidates[t])
           <= Len(allRomTypesToGames[t])
    /\ Len(foundRomTypesToCandidates[PATCHED]) = Len(allRomTypesToGames[PATCHED])
    /\ (spc = "reported" /\ ret.op = "toConsole") =>
         \A k \in 1..Len(ret.console.segments) :
           LET segment == ret.console.segments[k]
           IN segment.percentage # <<>> =>
                /\ segment.percentage[2] > 0
                /\ 0 <= segment.percentage[1]
                /\ segment.percentage[1] <= segment.percentage[2]
                /\ segment.percentage[1] = Len(foundRomTypesToCandidates[segment.type])
                /\ segment.percentage[2] = Len(allRomTypesToGames[segment.type])

\* A console summary with a game found, a game incomplete and a patched game.
C10_Witness ==
  /\ spc = "reported"
  /\ ret.op = "toConsole"
  /\ Len(incompleteRomTypesToCandidates[GAME]) = 1
  /\ Len(foundRomTypesToCandidates[GAME]) = 1
  /\ \E k \in 1..Len(ret.console.segments) :
       ret.console.segments[k].type = PATCHED /\ ret.console.segments[k].color = "green"
  /\ \E k \in 1..Len(ret.console.segments) :
       ret.console.segments[k].type = GAME /\ ret.console.segments[k].color = "olive"

(***************************************************************************)
(* Properties of getInputFiles                                             *)
(***************************************************************************)
\* The defined entries of the found and incomplete partitions.
RecordedEntries ==
  {e \in [part : {"found", "incomplete"}, type : ROMType,
          pos : 1..(Len(dat) + Len(candidates))] :
     /\ e.pos <= Len(Status[e.part][e.type])
     /\ Status[e.part][e.type][e.pos] # Undefined}

\* How often the file is an input file of a recorded entry.
Occurrences(file) ==
  Cardinality(
    {ek \in RecordedEntries \X (1..3) :
       LET i == Status[ek[1].part][ek[1].type][ek[1].pos].idx
       IN ek[2] <= ResolvedCount(i)
            /\ candidates[i].romsWithFiles[ek[2]].inputFile = file})

InputFilesOfCandidates ==
  UNION {{candidates[i].romsWithFiles[k].inputFile : k \in 1..ResolvedCount(i)} :
           i \in 1..Len(candidates)}

\* C7 as claimed: getInputFiles returns no input file more than once.
C7_InputFilesUnique ==
  (spc = "reported" /\ ret.op = "getInputFiles") => NoRepeat(ret.files)

\* C7 amended: getInputFiles returns the input file of every resolved ROM of
\* every candidate recorded in the found or the incomplete partition, once
\* for every tag the candidate is recorded under, and nothing else; it does
\* not deduplicate.
C7_InputFilesPerTag ==
  (spc = "reported" /\ ret.op = "getInputFiles") =>
    \A file \in Range(ret.files) \cup InputFilesOfCandidates :
      Cardinality({k \in 1..Len(ret.files) : ret.files[k] = file}) = Occurrences(file)

\* A file of a game recorded incomplete under two tags is returned twice.
C7_Witness ==
  /\ spc = "reported"
  /\ ret.op = "getInputFiles"
  /\ GamesRecorded(incompleteRomTypesToCandidates, RETAIL) # {}
  /\ GamesRecorded(foundRomTypesToCandidates, GAME) # {}
  /\ ~NoRepeat(ret.files)

(***************************************************************************)
(* The fixdat against the CSV statuses                                     *)
(***************************************************************************)
NoFilter ==
  [onlyBios |-> FALSE, onlyDevice |-> FALSE, onlyRetail |-> FALSE,
   noBios |-> FALSE, noDevice |-> FALSE]

\* The status toCsv reports for the game with every tag allowed.
CsvStatusOf(game) ==
  LET rows == ToCsv(Status, candidates, NoFilter, FALSE)
  IN rows[CHOOSE k \in 1..Len(rows) : rows[k].gameName = game.name].status

NotFoundGames == {game \in Range(dat) : CsvStatusOf(game) # "FOUND"}

FixdatMatchesStatus ==
  /\ Range(gamesWithMissingRoms) = NotFoundGames
  /\ fixdat.present => Range(fixdat.games) = NotFoundGames
  /\ result.kind = "absent" <=> (fpc = "done" /\ NotFoundGames = {})

\* C8 as claimed: the games of the fixdat are exactly the DAT games toCsv
\* does not report FOUND, and the fixdat is made iff there is such a game.
\* (Stated for the candidate lists with ProperCounts, where it already fails.)
C8_FixdatIsNotFound ==
  (spc = "built" /\ FixdatEnabledRun /\ ProperCounts) => FixdatMatchesStatus

\* The candidate lists for which the two views agree.
OneExactCandidatePerGame ==
  /\ \A i \in 1..Len(candidates) :
       /\ ~candidates[i].patched
       /\ Cardinality(ResolvedRoms(i)) = ResolvedCount(i)
       /\ ResolvedRoms(i) \subseteq DeclaredRoms(candidates[i].game)
       /\ \A j \in 1..Len(candidates) :
            GameEquals(candidates[i].game, candidates[j].game) => i = j
       /\ \A game \in Range(dat) :
            ~GameEquals(candidates[i].game, game)
              => ResolvedRoms(i) \cap DeclaredRoms(game) = {}
  /\ \A game \in Range(dat) : NoRepeat(game.roms)

\* C8 amended: when no candidate is patched, every game has at most one
\* candidate, every candidate resolves distinct ROMs that its own game
\* declares and no other DAT game declares, and no game declares a ROM twice,
\* the games of the fixdat are exactly the DAT games toCsv does not report
\* FOUND, and create returns absent iff there is no such game.
C8_FixdatIsNotFoundWhenExact ==
  (spc = "built" /\ FixdatEnabledRun /\ OneExactCandidatePerGame) => FixdatMatchesStatus

\* A fixdat written for an incomplete game and a missing game.
C8_Witness ==
  /\ spc = "built"
  /\ fpc = "done"
  /\ result.kind = "path"
  /\ OneExactCandidatePerGame
  /\ Len(candidates) = 2
  /\ \E game \in Range(dat) : CsvStatusOf(game) = "INCOMPLETE"
  /\ \E game \in Range(dat) : CsvStatusOf(game) = "FOUND"
  /\ Len(fixdat.games) = 1
====
